---- MODULE Spec2Model ----
(***************************************************************************)
(* ReQUIAM manual overrides: the ManualOverride object of                  *)
(* requiam/manual_override.py (two pandas tables loaded from CSV files,    *)
(* each with a comment header), its update_dataframe and identify_changes  *)
(* methods, and the module functions update_entries and                    *)
(* get_current_groups.                                                     *)
(*                                                                         *)
(* A pandas DataFrame is a sequence of rows, each carrying its index       *)
(* label (idx); a CSV file is a sequence of newline-terminated lines; a    *)
(* string examined by substring tests is a sequence of tokens.             *)
(***************************************************************************)
EXTENDS Integers, Sequences, FiniteSets, TLC

VARIABLES disk, pc, portal_df, quota_df, portal_header, quota_header,
          nops, last

vars == <<disk, pc, portal_df, quota_df, portal_header, quota_header,
          nops, last>>

(***************************************************************************)
(* Bounds and input sets                                                   *)
(***************************************************************************)
\* update_dataframe calls explored in one behaviour
MaxOps == 2
\* rows of a loaded table in the reconciliation specification
MaxRows == 2
\* values of a multi-valued ismemberof attribute
MaxMembership == 3

Netids == {"u1", "u2"}
Uaids == {"U1", "U2"}
PortalGroups == {"engineering", "marketing"}
QuotaGroups == {"100", "200"}
GroupTypes == {"portal", "quota"}
\* a group_type no branch recognizes
BadType == "other"

Groups(group_type) ==
    IF group_type = "quota" THEN QuotaGroups ELSE PortalGroups

\* group arguments a caller passes: a group of the kind, or 'root'
GroupInputs(group_type) == Groups(group_type) \cup {"root"}

(***************************************************************************)
(* Sequences                                                               *)
(***************************************************************************)
Range(s) == {s[i] : i \in 1..Len(s)}

Distinct(s) == \A i, j \in 1..Len(s) : s[i] = s[j] => i = j

RECURSIVE SeqsUpTo(_, _)
SeqsUpTo(S, n) ==
    IF n = 0 THEN {<<>>}
    ELSE LET shorter == SeqsUpTo(S, n - 1)
         IN  shorter \cup {Append(s, x) : s \in shorter, x \in S}

(***************************************************************************)
(* Files.  A line is a comment line (it starts with '#'), the CSV column   *)
(* line, or a data row.                                                    *)
(***************************************************************************)
CommentLine(c) ==
    [kind |-> "comment", text |-> c, netid |-> "", uaid |-> "", group |-> ""]
ColumnsLine ==
    [kind |-> "columns", text |-> "", netid |-> "", uaid |-> "", group |-> ""]
RowLine(n, u, g) ==
    [kind |-> "row", text |-> "", netid |-> n, uaid |-> u, group |-> g]

NoFile == [exists |-> FALSE, lines |-> <<>>]
File(ls) == [exists |-> TRUE, lines |-> ls]

\* line.startswith('#')
startswith_hash(line) == line.kind = "comment"

(***************************************************************************)
(* Call results: exc is "none" for a normal return                         *)
(***************************************************************************)
Return(v, lg) == [exc |-> "none", value |-> v, log |-> lg]
Raise(e, lg) == [exc |-> e, value |-> <<>>, log |-> lg]

(***************************************************************************)
(* pandas                                                                  *)
(***************************************************************************)
NoneDf == [isdf |-> FALSE, rows |-> <<>>]
DataFrame(rows) == [isdf |-> TRUE, rows |-> rows]
Row(i, n, u, g) == [idx |-> i, netid |-> n, uaid |-> u, group |-> g]

\* df.index
Index(df) == [i \in 1..Len(df.rows) |-> df.rows[i].idx]

\* df.loc[df['netid'] == netid].index
NetidIndex(df, netid) ==
    LET hit == SelectSeq(df.rows, LAMBDA r : r.netid = netid)
    IN  [i \in 1..Len(hit) |-> hit[i].idx]

\* df.loc[label] = [netid, uaid, group]: the row with that index label is
\* overwritten; a label the index lacks appends a row carrying it
LocSet(df, label, n, u, g) ==
    IF label \in Range(Index(df))
    THEN DataFrame([i \in 1..Len(df.rows) |->
                       IF df.rows[i].idx = label
                       THEN Row(label, n, u, g) ELSE df.rows[i]])
    ELSE DataFrame(Append(df.rows, Row(label, n, u, g)))

\* df.drop(labels)
Drop(df, labels) ==
    DataFrame(SelectSeq(df.rows, LAMBDA r : r.idx \notin Range(labels)))

\* df.loc[df[group_type] == group] and df.loc[df[group_type] != group]
WhereGroupEq(df, group) ==
    DataFrame(SelectSeq(df.rows, LAMBDA r : r.group = group))
WhereGroupNe(df, group) ==
    DataFrame(SelectSeq(df.rows, LAMBDA r : r.group # group))

\* df.to_csv(f, index=False): the column line, then the rows without labels
to_csv(df) ==
    <<ColumnsLine>> \o
    [i \in 1..Len(df.rows) |->
        RowLine(df.rows[i].netid, df.rows[i].uaid, df.rows[i].group)]

\* dtype int of the quota column: 'root' is no integer
IsInt(g) == g \in QuotaGroups

\* pd.read_csv(input_file, comment='#', dtype=dtype_dict)
read_csv(file, group_type) ==
    IF ~file.exists THEN Raise("FileNotFoundError", <<>>)
    ELSE LET body == SelectSeq(file.lines, LAMBDA l : ~startswith_hash(l))
         IN  IF body = <<>> THEN Raise("EmptyDataError", <<>>)
             ELSE LET data == Tail(body)
                  IN  IF group_type = "quota"
                         /\ \E i \in 1..Len(data) : ~IsInt(data[i].group)
                      THEN Raise("ValueError", <<>>)
                      ELSE Return(DataFrame([i \in 1..Len(data) |->
                                      Row(i - 1, data[i].netid, data[i].uaid,
                                          data[i].group)]), <<>>)

(***************************************************************************)
(* csv_commented_header and read_manual_file                               *)
(***************************************************************************)
csv_commented_header(input_file) ==
    IF ~input_file.exists THEN Raise("FileNotFoundError", <<>>)
    ELSE Return(SelectSeq(input_file.lines, startswith_hash), <<>>)

read_manual_file(input_file, group_type) ==
    IF group_type \notin GroupTypes THEN Raise("ValueError", <<>>)
    ELSE LET df == read_csv(input_file, group_type)
         IN  IF df.exc = "FileNotFoundError"
             THEN Return(NoneDf, <<"File not found!">>)
             ELSE df

(***************************************************************************)
(* ManualOverride.__init__: the four loads in the order of the code.  A    *)
(* load that raises ends construction; no object exists afterwards.        *)
(***************************************************************************)
Object(st, pdf, qdf, ph, qh, e, lg) ==
    [pc |-> st, portal_df |-> pdf, quota_df |-> qdf,
     portal_header |-> ph, quota_header |-> qh, exc |-> e, log |-> lg]

init(d) ==
    LET p == read_manual_file(d.portal, "portal")
    IN  IF p.exc # "none"
        THEN Object("aborted", NoneDf, NoneDf, <<>>, <<>>, p.exc, p.log)
        ELSE
    LET q == read_manual_file(d.quota, "quota")
    IN  IF q.exc # "none"
        THEN Object("aborted", p.value, NoneDf, <<>>, <<>>, q.exc,
                    p.log \o q.log)
        ELSE
    LET ph == csv_commented_header(d.portal)
    IN  IF ph.exc # "none"
        THEN Object("aborted", p.value, q.value, <<>>, <<>>, ph.exc,
                    p.log \o q.log)
        ELSE
    LET qh == csv_commented_header(d.quota)
    IN  IF qh.exc # "none"
        THEN Object("aborted", p.value, q.value, ph.value, <<>>, qh.exc,
                    p.log \o q.log)
        ELSE Object("ready", p.value, q.value, ph.value, qh.value, "none",
                    p.log \o q.log)

(***************************************************************************)
(* ManualOverride.update_dataframe                                         *)
(***************************************************************************)
\* revise without the lookup of the netid: every call appends a row
revise_append(revised_df, netid, uaid, group) ==
    [df  |-> DataFrame(Append(revised_df.rows,
                 Row(Len(revised_df.rows), netid, uaid[1], group))),
     log |-> "Adding entry"]

\* lines 97-107: the table after the change, and the line logged.
\* uaid is the caller's list; list(uaid)[0] is its first element.
revise(revised_df, netid, uaid, group) ==
    LET loc0 == NetidIndex(revised_df, netid)
    IN  IF Len(loc0) = 0
        THEN [df  |-> LocSet(revised_df, Len(revised_df.rows),
                             netid, uaid[1], group),
              log |-> "Adding entry"]
        ELSE IF group # "root"
        THEN [df  |-> LocSet(revised_df, loc0[1], netid, uaid[1], group),
              log |-> "Updating entry"]
        ELSE [df  |-> Drop(revised_df, loc0),
              log |-> "Removing entry"]

\* overwrite without f.writelines(header)
overwrite_rows_only(header, df) == File(to_csv(df))

\* lines 113-116 and 121-124: f.writelines(header); df.to_csv(f, index=False)
overwrite(header, df) == File(header \o to_csv(df))

\* the fields and files after update_dataframe(netid, uaid, group, group_type)
update_dataframe(self, d, netid, uaid, group, group_type) ==
    IF group_type \notin GroupTypes
    THEN [self |-> self, disk |-> d, exc |-> "ValueError", log |-> <<>>]
    ELSE IF group_type = "portal"
    THEN LET r == revise(self.portal_df, netid, uaid, group)
         IN  [self |-> [self EXCEPT !.portal_df = r.df],
              disk |-> [d EXCEPT !.portal = overwrite(self.portal_header, r.df)],
              exc  |-> "none",
              log  |-> <<r.log, "Updating csv", "Overwriting">>]
    ELSE LET r == revise(self.quota_df, netid, uaid, group)
         IN  [self |-> [self EXCEPT !.quota_df = r.df],
              disk |-> [d EXCEPT !.quota = overwrite(self.quota_header, r.df)],
              exc  |-> "none",
              log  |-> <<r.log, "Updating csv", "Overwriting">>]

(***************************************************************************)
(* update_entries and ManualOverride.identify_changes.                     *)
(*                                                                         *)
(* A Python value passed as netid or uaid carries its type: the callers    *)
(* in identify_changes pass the pandas columns add_df['uaid'] and          *)
(* outside_df['uaid'] (lines 73-74 and 79-80), which are Series.           *)
(***************************************************************************)
Series(column) == [type |-> "Series", elems |-> Range(column)]

Column(df, name) ==
    [i \in 1..Len(df.rows) |->
        IF name = "netid" THEN df.rows[i].netid ELSE df.rows[i].uaid]

\* ldap_set - uaid (line 198).  set.__sub__ answers NotImplemented for an
\* operand that is no set, and Series.__rsub__ then subtracts each string
\* of the column from the set, which raises TypeError.
set_sub(ldap_set, uaid) ==
    IF uaid.type = "set"
    THEN [exc |-> "none", value |-> ldap_set \ uaid.elems]
    ELSE [exc |-> "TypeError", value |-> {}]

\* set.union(ldap_set, uaid) (line 205) takes any iterable
set_union(ldap_set, uaid) == ldap_set \cup uaid.elems

\* isinstance(netid, list) / isinstance(netid, str) decide what is logged
entries_log(netid, word) ==
    IF netid.type \in {"list", "str"} THEN <<word>> ELSE <<>>

\* update_entries adding in place (ldap_set.update(uaid))
update_entries_inplace(ldap_set, netid, uaid, action) ==
    IF action = "add"
    THEN [exc |-> "none", new |-> set_union(ldap_set, uaid),
          arg |-> set_union(ldap_set, uaid), log |-> <<>>]
    ELSE [exc |-> set_sub(ldap_set, uaid).exc,
          new |-> set_sub(ldap_set, uaid).value, arg |-> ldap_set,
          log |-> <<>>]

\* new: the set returned; arg: the caller's ldap_set object after the call
update_entries(ldap_set, netid, uaid, action) ==
    IF action \notin {"remove", "add"}
    THEN [exc |-> "ValueError", new |-> {}, arg |-> ldap_set, log |-> <<>>]
    ELSE IF action = "remove"
    THEN LET d == set_sub(ldap_set, uaid)
         IN  [exc |-> d.exc, new |-> d.value, arg |-> ldap_set,
              log |-> entries_log(netid, "Removing")]
    ELSE [exc |-> "none", new |-> set_union(ldap_set, uaid), arg |-> ldap_set,
          log |-> entries_log(netid, "Adding")]

\* lines 67-74: the inclusion phase
inclusion(manual_df, ldap_set, group) ==
    LET add_df == WhereGroupEq(manual_df, group)
    IN  IF Len(add_df.rows) > 0
        THEN update_entries(ldap_set, Series(Column(add_df, "netid")),
                            Series(Column(add_df, "uaid")), "add")
        ELSE [exc |-> "none", new |-> ldap_set, arg |-> ldap_set, log |-> <<>>]

\* lines 76-82: the exclusion phase, on the set the inclusion phase made
exclusion(manual_df, add_ldap_set, group) ==
    LET outside_df == WhereGroupNe(manual_df, group)
    IN  IF Len(outside_df.rows) > 0
        THEN update_entries(add_ldap_set, Series(Column(outside_df, "netid")),
                            Series(Column(outside_df, "uaid")), "remove")
        ELSE [exc |-> "none", new |-> add_ldap_set, arg |-> add_ldap_set,
              log |-> <<>>]

\* new: the set returned; arg: the caller's ldap_set after the call
identify_changes(obj, ldap_set, group, group_type) ==
    IF group_type \notin GroupTypes
    THEN [exc |-> "ValueError", new |-> {}, arg |-> ldap_set, log |-> <<>>]
    ELSE LET manual_df == IF group_type = "portal" THEN obj.portal_df
                          ELSE obj.quota_df
         IN  IF ~manual_df.isdf
             THEN [exc |-> "TypeError", new |-> {}, arg |-> ldap_set,
                   log |-> <<>>]
             ELSE LET a == inclusion(manual_df, ldap_set, group)
                      x == exclusion(manual_df, a.new, group)
                  IN  [exc |-> x.exc, new |-> x.new, arg |-> a.arg,
                       log |-> a.log \o x.log]

(***************************************************************************)
(* get_current_groups.  A string is a sequence of tokens; s1 in s2 and     *)
(* s.replace(old, '') are Python's, token by token.                        *)
(***************************************************************************)
\* commons.figshare_stem: the namespace path of a group kind
figshare_stem(kind) == <<"stem", ":", kind>>

\* sub in s
Contains(s, sub) ==
    \E i \in 1..(Len(s) - Len(sub) + 1) : SubSeq(s, i, i + Len(sub) - 1) = sub

\* s.replace(old, ''): every occurrence of old, left to right, is removed
RECURSIVE replace(_, _)
replace(s, old) ==
    IF Len(s) < Len(old) \/ old = <<>> THEN s
    ELSE IF SubSeq(s, 1, Len(old)) = old
    THEN replace(SubSeq(s, Len(old) + 1, Len(s)), old)
    ELSE <<Head(s)>> \o replace(Tail(s), old)

\* matching without the test for the marker
matching_any(membership, stem) ==
    SelectSeq(membership, LAMBDA v : Contains(v, stem))

\* [s for s in membership if ((stem in s) and ('grouper' not in s))]
matching(membership, stem) ==
    SelectSeq(membership,
              LAMBDA v : Contains(v, stem) /\ ~Contains(v, <<"grouper">>))

\* lines 239-251 and 253-265: one kind's field, or the error raised
extract(membership, kind) ==
    LET stem == figshare_stem(kind)
        found == matching(membership, stem)
    IN  IF Len(found) = 0
        THEN [exc |-> "none", field |-> <<>>,
              log |-> <<"No Grouper group found!">>]
        ELSE IF Len(found) # 1
        THEN [exc |-> "ValueError", field |-> <<>>,
              log |-> <<"ERROR! Multiple Grouper " \o kind \o " found">>]
        ELSE [exc |-> "none", field |-> replace(found[1], stem \o <<":">>),
              log |-> <<"Current " \o kind \o " is">>]

\* membership is entries[0].ismemberof.value: None, or the list of values
get_current_groups(membership) ==
    IF membership.isnone
    THEN [exc |-> "none", figshare_dict |-> [portal |-> <<>>, quota |-> <<>>],
          log |-> <<"No ismembersof attributes">>]
    ELSE LET p == extract(membership.values, "portal")
         IN  IF p.exc # "none"
             THEN [exc |-> p.exc, figshare_dict |-> [portal |-> <<>>, quota |-> <<>>],
                   log |-> p.log]
             ELSE LET q == extract(membership.values, "quota")
                  IN  IF q.exc # "none"
                      THEN [exc |-> q.exc,
                            figshare_dict |-> [portal |-> <<>>, quota |-> <<>>],
                            log |-> p.log \o q.log]
                      ELSE [exc |-> "none",
                            figshare_dict |-> [portal |-> p.field, quota |-> q.field],
                            log |-> p.log \o q.log]

(***************************************************************************)
(* The files found at startup                                              *)
(***************************************************************************)
c1 == CommentLine("# netid,uaid,group overrides")
c2 == CommentLine("# edited by hand")

\* rows of a hand-written file: one per netid
Roster(group_type) ==
    IF group_type = "portal"
    THEN <<RowLine("u1", "U1", "engineering"), RowLine("u2", "U2", "marketing")>>
    ELSE <<RowLine("u1", "U1", "100"), RowLine("u2", "U2", "200")>>

InitialFiles(group_type) ==
    LET r == Roster(group_type)
    IN  { NoFile,
          File(<<ColumnsLine>>),
          File(<<c1, c2, ColumnsLine>>),
          File(<<c1, c2, ColumnsLine, r[1], r[2]>>),
          File(<<c2, ColumnsLine, r[1], c1, r[2]>>) }

(***************************************************************************)
(* State                                                                   *)
(***************************************************************************)
NoMembership == [isnone |-> TRUE, values |-> <<>>]
EmptyDict == [portal |-> <<>>, quota |-> <<>>]

NoCall ==
    [op |-> "none", netid |-> "", group |-> "", group_type |-> "",
     ldap_set |-> {}, ldap_set_after |-> {}, new_ldap_set |-> {},
     membership |-> NoMembership, figshare_dict |-> EmptyDict,
     exc |-> "none", log |-> <<>>]

self ==
    Object(pc, portal_df, quota_df, portal_header, quota_header, "none", <<>>)

Init ==
    /\ disk \in [portal : InitialFiles("portal"), quota : InitialFiles("quota")]
    /\ pc = "start"
    /\ portal_df = NoneDf
    /\ quota_df = NoneDf
    /\ portal_header = <<>>
    /\ quota_header = <<>>
    /\ nops = 0
    /\ last = NoCall

\* mo = ManualOverride(portal_file, quota_file, log)
Construct ==
    /\ pc = "start"
    /\ LET o == init(disk)
       IN  /\ pc' = o.pc
           /\ portal_df' = o.portal_df
           /\ quota_df' = o.quota_df
           /\ portal_header' = o.portal_header
           /\ quota_header' = o.quota_header
           /\ last' = [NoCall EXCEPT !.op = "__init__", !.exc = o.exc,
                                     !.log = o.log]
    /\ UNCHANGED <<disk, nops>>

\* the process ends and a later run starts from the files on disk
Restart ==
    /\ pc \in {"ready", "aborted"}
    /\ last.op # "none"
    /\ pc' = "start"
    /\ portal_df' = NoneDf
    /\ quota_df' = NoneDf
    /\ portal_header' = <<>>
    /\ quota_header' = <<>>
    /\ last' = NoCall
    /\ UNCHANGED <<disk, nops>>

\* the uaid argument: a list of one or two distinct values
UaidLists == {u \in SeqsUpTo(Uaids, 2) : Len(u) >= 1 /\ Distinct(u)}

\* mo.update_dataframe(netid, uaid, group, group_type)
UpdateDataframe ==
    /\ pc = "ready"
    /\ nops < MaxOps
    /\ \E netid \in Netids, uaid \in UaidLists,
          group_type \in GroupTypes \cup {BadType} :
       \E group \in GroupInputs(group_type) :
          LET r == update_dataframe(self, disk, netid, uaid, group, group_type)
          IN  /\ portal_df' = r.self.portal_df
              /\ quota_df' = r.self.quota_df
              /\ disk' = r.disk
              /\ last' = [NoCall EXCEPT !.op = "update_dataframe",
                              !.netid = netid, !.group = group,
                              !.group_type = group_type,
                              !.exc = r.exc, !.log = r.log]
    /\ nops' = nops + 1
    /\ UNCHANGED <<pc, portal_header, quota_header>>

Next == Construct \/ Restart \/ UpdateDataframe

Spec == Init /\ [][Next]_vars

(***************************************************************************)
(* Reconciliation: an object loaded from files holding any table of up to  *)
(* MaxRows rows, one row per netid, and calls of identify_changes on it.   *)
(***************************************************************************)
RowLines(group_type) ==
    {RowLine(n, u, g) : n \in Netids, u \in Uaids,
                        g \in IF group_type = "portal"
                              THEN GroupInputs("portal") ELSE Groups("quota")}

OnePerNetid(lines) ==
    \A i, j \in 1..Len(lines) : lines[i].netid = lines[j].netid => i = j

LoadedFiles(group_type) ==
    {File(<<c1, ColumnsLine>> \o rows) :
        rows \in {r \in SeqsUpTo(RowLines(group_type), MaxRows) : OnePerNetid(r)}}

InitReconcile ==
    /\ \/ disk \in [portal : LoadedFiles("portal"), quota : {File(<<c2, ColumnsLine>>)}]
       \/ disk \in [portal : {File(<<c2, ColumnsLine>>)}, quota : LoadedFiles("quota")]
    /\ LET o == init(disk)
       IN  /\ pc = o.pc
           /\ portal_df = o.portal_df
           /\ quota_df = o.quota_df
           /\ portal_header = o.portal_header
           /\ quota_header = o.quota_header
    /\ nops = 0
    /\ last = NoCall

\* new_set = mo.identify_changes(ldap_set, group, group_type)
IdentifyChanges ==
    /\ pc = "ready"
    /\ \E ldap_set \in SUBSET Uaids, group_type \in GroupTypes \cup {BadType} :
       \E group \in GroupInputs(group_type) :
          LET r == identify_changes(self, ldap_set, group, group_type)
          IN  last' = [NoCall EXCEPT !.op = "identify_changes",
                          !.group = group, !.group_type = group_type,
                          !.ldap_set = ldap_set, !.ldap_set_after = r.arg,
                          !.new_ldap_set = r.new,
                          !.exc = r.exc, !.log = r.log]
    /\ UNCHANGED <<disk, pc, portal_df, quota_df, portal_header,
                   quota_header, nops>>

NextReconcile == IdentifyChanges

SpecReconcile == InitReconcile /\ [][NextReconcile]_vars

(***************************************************************************)
(* The directory parser: calls of get_current_groups on the ismemberof     *)
(* attribute of a user, which is absent or lists distinct group names.     *)
(***************************************************************************)
MembershipValues ==
    { <<"stem", ":", "portal", ":", "acme">>,
      <<"stem", ":", "portal", ":", "astro">>,
      <<"cn=", "stem", ":", "portal", ":", "acme">>,
      <<"stem", ":", "portal", ":", "grouper", "-admins">>,
      <<"cn=", "grouper", "-", "portal", "-internal">>,
      <<"stem", ":", "quota", ":", "100">>,
      <<"stem", ":", "quota", ":", "200">>,
      <<"stem", ":", "quota", ":", "grouper", "-admins">>,
      <<"other", ":", "staff">> }

Memberships ==
    {NoMembership} \cup
    {[isnone |-> FALSE, values |-> m] :
        m \in {x \in SeqsUpTo(MembershipValues, MaxMembership) :
                   Len(x) >= 2 /\ Distinct(x)}}

InitParser ==
    /\ disk = [portal |-> NoFile, quota |-> NoFile]
    /\ pc = "start"
    /\ portal_df = NoneDf
    /\ quota_df = NoneDf
    /\ portal_header = <<>>
    /\ quota_header = <<>>
    /\ nops = 0
    /\ \E membership \in Memberships :
          last = [NoCall EXCEPT !.membership = membership]

\* figshare_dict = get_current_groups(uid, ldap_dict, log), on the
\* attribute the directory holds for uid
GetCurrentGroups ==
    /\ last.op = "none"
    /\ LET r == get_current_groups(last.membership)
       IN  last' = [last EXCEPT !.op = "get_current_groups",
                       !.figshare_dict = r.figshare_dict,
                       !.exc = r.exc, !.log = r.log]
    /\ UNCHANGED <<disk, pc, portal_df, quota_df, portal_header,
                   quota_header, nops>>

NextParser == GetCurrentGroups

SpecParser == InitParser /\ [][NextParser]_vars

(***************************************************************************)
(* Properties                                                              *)
(***************************************************************************)
Table(group_type) == IF group_type = "portal" THEN portal_df ELSE quota_df

\* the (uaid, group) pairs a table holds for a netid
RecordsOf(df, netid) ==
    {<<df.rows[i].uaid, df.rows[i].group>> :
        i \in {j \in 1..Len(df.rows) : df.rows[j].netid = netid}}

Reconciled == last.op = "identify_changes" /\ last.group_type \in GroupTypes

Upserted == last.op = "update_dataframe" /\ last.exc = "none"

\* C1: identify_changes on a recognized group_type returns a set holding
\* the uaid of every override record whose group is the target group.
C1_OverridePrecedence ==
    Reconciled =>
        \A i \in 1..Len(Table(last.group_type).rows) :
            Table(last.group_type).rows[i].group = last.group =>
                /\ last.exc = "none"
                /\ Table(last.group_type).rows[i].uaid \in last.new_ldap_set

\* C2: identify_changes on a recognized group_type returns a set holding
\* no uaid of an override record whose group differs from the target group.
C2_ExclusionPrecedence ==
    Reconciled =>
        \A i \in 1..Len(Table(last.group_type).rows) :
            Table(last.group_type).rows[i].group # last.group =>
                /\ last.exc = "none"
                /\ Table(last.group_type).rows[i].uaid \notin last.new_ldap_set

\* C3: update_dataframe with group 'root' leaves no record for the netid,
\* and leaves the table as it was when it held no record for the netid.
C3_RootSentinel ==
    [][(last'.op = "update_dataframe" /\ last'.exc = "none"
        /\ last'.group = "root") =>
          /\ last'.group_type = "portal" =>
                /\ RecordsOf(portal_df', last'.netid) = {}
                /\ RecordsOf(portal_df, last'.netid) = {}
                      => portal_df' = portal_df
          /\ last'.group_type = "quota" =>
                /\ RecordsOf(quota_df', last'.netid) = {}
                /\ RecordsOf(quota_df, last'.netid) = {}
                      => quota_df' = quota_df]_vars

\* C4: each in-memory table holds at most one record per netid.
C4_OnePerNetid ==
    \A t \in GroupTypes : OnePerNetid(Table(t).rows)

C4_Witness ==
    /\ Upserted
    /\ nops >= 2
    /\ Len(Table(last.group_type).rows) = 2

\* C5: construction with a missing override file logs it and ends with a
\* usable object whose table of that kind is empty.
C5_MissingFileRecoverable ==
    last.op = "__init__" =>
        \A t \in GroupTypes :
            ~disk[t].exists =>
                /\ pc = "ready"
                /\ Table(t) = DataFrame(<<>>)
                /\ "File not found!" \in Range(last.log)

CommentLines(file) == SelectSeq(file.lines, startswith_hash)

\* after a save the file starts with the header held in memory, and no
\* comment line follows it
C6_HeaderFirst ==
    Upserted =>
        LET f == disk[last.group_type]
            h == IF last.group_type = "portal" THEN portal_header
                 ELSE quota_header
        IN  /\ f.exists
            /\ Len(f.lines) > Len(h)
            /\ SubSeq(f.lines, 1, Len(h)) = h
            /\ \A i \in (Len(h) + 1)..Len(f.lines) : ~startswith_hash(f.lines[i])

\* no step changes the comment lines of a file
C6_HeaderKept ==
    \A t \in GroupTypes :
        disk[t].exists =>
            /\ disk'[t].exists
            /\ CommentLines(disk'[t]) = CommentLines(disk[t])

Assigned(kind) ==
    {i \in 1..Len(last.membership.values) :
        /\ Contains(last.membership.values[i], figshare_stem(kind))
        /\ ~Contains(last.membership.values[i], <<"grouper">>)}

Parsed == last.op = "get_current_groups" /\ ~last.membership.isnone

\* C7: get_current_groups raises, and returns no dictionary, exactly when
\* two or more values without the marker hold the stem of one kind.
C7_MultipleMatchFails ==
    Parsed =>
        /\ last.exc = "ValueError"
              <=> \E kind \in GroupTypes : Cardinality(Assigned(kind)) >= 2
        /\ last.exc = "ValueError" => last.figshare_dict = EmptyDict

C7_Witness ==
    /\ Parsed
    /\ last.exc = "ValueError"
    /\ Cardinality(Assigned("portal")) = 0
    /\ Cardinality(Assigned("quota")) = 2
    /\ \E i \in 1..Len(last.membership.values) :
          /\ Contains(last.membership.values[i], figshare_stem("quota"))
          /\ Contains(last.membership.values[i], <<"grouper">>)

\* C8: with one value assigned to a kind, the field is what follows the
\* stem and the separator in that value and nothing else; with none, the
\* field is the empty string.
C8_SingleMatch ==
    (Parsed /\ last.exc = "none") =>
        \A kind \in GroupTypes :
            /\ Assigned(kind) = {} => last.figshare_dict[kind] = <<>>
            /\ \A i \in Assigned(kind) :
                  LET v == last.membership.values[i]
                      tail == figshare_stem(kind) \o <<":">>
                                  \o last.figshare_dict[kind]
                  IN  Contains(v, figshare_stem(kind) \o <<":">>) =>
                         /\ Len(v) >= Len(tail)
                         /\ SubSeq(v, Len(v) - Len(tail) + 1, Len(v)) = tail

\* the caller's set is as it was, and the call made again has the same
\* outcome
C9_SameAgain ==
    last.op = "identify_changes" =>
        LET again == identify_changes(self, last.ldap_set_after, last.group,
                                      last.group_type)
        IN  /\ last.ldap_set_after = last.ldap_set
            /\ again.exc = last.exc
            /\ again.new = last.new_ldap_set

\* a call changes neither tables, headers nor files
C9_Frame ==
    last'.op = "identify_changes" =>
        UNCHANGED <<disk, portal_df, quota_df, portal_header, quota_header>>

\* C9: identify_changes leaves the caller's set, the tables, the headers
\* and the files as they were, and the same call made again in the state
\* it leaves has the same outcome.
C9_ReconcilePure == [](C9_SameAgain) /\ [][C9_Frame]_vars

C9_Witness ==
    /\ last.op = "identify_changes"
    /\ last.exc = "none"
    /\ last.ldap_set = {"U2"}
    /\ last.new_ldap_set = {"U1", "U2"}
    /\ last.ldap_set_after = {"U2"}

\* C10: update_dataframe for a netid leaves every other netid's record in
\* that table, and the whole table of the other kind, as they were.
C10_UpsertFrame ==
    [][(last'.op = "update_dataframe" /\ last'.exc = "none") =>
          /\ last'.group_type = "portal" =>
                /\ quota_df' = quota_df
                /\ \A m \in Netids \ {last'.netid} :
                      RecordsOf(portal_df', m) = RecordsOf(portal_df, m)
          /\ last'.group_type = "quota" =>
                /\ portal_df' = portal_df
                /\ \A m \in Netids \ {last'.netid} :
                      RecordsOf(quota_df', m) = RecordsOf(quota_df, m)]_vars

====
